---- MODULE Spec2Model ----
(***************************************************************************)
(* go-mandelbrot (src/main.go): main starts one processImage goroutine per *)
(* preset; each decodes its input, seeds two rasters from it, renders one  *)
(* with generateMandelbrotSequential and the other with                    *)
(* generateMandelbrotParallel (one goroutine per column, joined by a       *)
(* sync.WaitGroup), and saves both.                                        *)
(*                                                                         *)
(* Scale.  width and height are 800 in the source; here both are Size.     *)
(* For 4 <= Size <= 7 the divisor width/4 of the coordinate mapping is 1,  *)
(* so every pixel maps to a Gaussian integer.  On Gaussian integers every  *)
(* value the escape loop computes before it returns is an integer of       *)
(* magnitude below 2^53, which float64 represents exactly: the integer     *)
(* arithmetic below is the float64 arithmetic of the source on them.       *)
(***************************************************************************)
EXTENDS Integers, Sequences, FiniteSets, TLC

\* The raster side, standing for the source's 800 (width = height).
Size == 4
\* The evaluator is applied to the points a + bi with |a|, |b| <= EvalRange.
EvalRange == 5

width == Size
height == Size
maxIter == 200

Levels == {"easy", "normal", "hard"}

(***************************************************************************)
(* Colours.  A colour value carries its Go type in "kind".  "C16" is any   *)
(* color.Color of a decoded image, given by what its RGBA() method         *)
(* returns: alpha-premultiplied 16-bit channels.                           *)
(***************************************************************************)
RGBA(r, g, b, a) == [kind |-> "RGBA", r |-> r, g |-> g, b |-> b, a |-> a]
Gray(y) == [kind |-> "Gray", Y |-> y]
Black == [kind |-> "Gray16", Y |-> 0]
C16(r, g, b, a) == [kind |-> "C16", r |-> r, g |-> g, b |-> b, a |-> a]

\* uint8(v): the low 8 bits.
Uint8(v) == v % 256
\* v >> 8 on an unsigned value.
Shr8(v) == v \div 256

\* c.RGBA(): the 16-bit alpha-premultiplied channels of a colour.
RGBA16(c) ==
  CASE c.kind = "Gray"   -> [r |-> c.Y * 257, g |-> c.Y * 257, b |-> c.Y * 257, a |-> 65535]
    [] c.kind = "Gray16" -> [r |-> c.Y, g |-> c.Y, b |-> c.Y, a |-> 65535]
    [] c.kind = "RGBA"   -> [r |-> c.r * 257, g |-> c.g * 257, b |-> c.b * 257, a |-> c.a * 257]
    [] c.kind = "C16"    -> [r |-> c.r, g |-> c.g, b |-> c.b, a |-> c.a]

\* color.RGBAModel.Convert, which (*image.RGBA).Set applies to its argument: a
\* color.RGBA is stored as it is, any other colour by the high byte of each channel.
ConvertRGBA(c) ==
  IF c.kind = "RGBA" THEN c
  ELSE LET q == RGBA16(c)
       IN RGBA(Uint8(Shr8(q.r)), Uint8(Shr8(q.g)), Uint8(Shr8(q.b)), Uint8(Shr8(q.a)))

(***************************************************************************)
(* Images.  A decoded PNG and an image.NewRGBA of its bounds both have     *)
(* Min = (0,0): an image is its size and its pixels.                       *)
(***************************************************************************)
Pixels(w, h) == (0 .. w - 1) \X (0 .. h - 1)
NilImage == [w |-> 0, h |-> 0, pix |-> <<>>]
InBounds(img, x, y) == x >= 0 /\ x < img.w /\ y >= 0 /\ y < img.h

\* image.NewRGBA(bounds): every pixel the zero colour.
NewRGBA(w, h) == [w |-> w, h |-> h, pix |-> [pt \in Pixels(w, h) |-> RGBA(0, 0, 0, 0)]]

\* img.At(x, y): outside the bounds the image types return a zero colour.
At(img, x, y) == IF InBounds(img, x, y) THEN img.pix[<<x, y>>] ELSE C16(0, 0, 0, 0)

\* (*image.RGBA).Set(x, y, c): nothing outside the bounds.
Set(img, x, y, c) ==
  IF InBounds(img, x, y) THEN [img EXCEPT !.pix[<<x, y>>] = ConvertRGBA(c)] ELSE img

(***************************************************************************)
(* The escape-time evaluator.                                              *)
(***************************************************************************)
ComplexNumber(re, im) == [Real |-> re, Imag |-> im]

\* Line 27: z = z*z + c.
MandelStep(z, c) ==
  ComplexNumber(z.Real * z.Real - z.Imag * z.Imag + c.Real, 2 * z.Real * z.Imag + c.Imag)

\* Line 28: |z|^2 > 4.
Escaped(z) == z.Real * z.Real + z.Imag * z.Imag > 4

NoColour == [kind |-> "none"]

\* MandelIter numbering the iterations from one in the colour it returns.
MandelIterCountsFromOne(s, c, i) ==
  IF s.out.kind # "none" THEN s
  ELSE LET z1 == MandelStep(s.z, c)
       IN [z |-> z1, out |-> IF Escaped(z1) THEN Gray(Uint8((i + 1) % 256)) ELSE NoColour]

\* MandelIter testing |z|^2 > 4 before the update instead of after it.
MandelIterTestFirst(s, c, i) ==
  IF s.out.kind # "none" THEN s
  ELSE IF Escaped(s.z) THEN [z |-> s.z, out |-> Gray(Uint8(i % 256))]
  ELSE [z |-> MandelStep(s.z, c), out |-> NoColour]

\* Lines 27-30: iteration i of the loop, on its state s: the value z and, once the
\* function has returned, what it returned (out).
MandelIter(s, c, i) ==
  IF s.out.kind # "none" THEN s
  ELSE LET z1 == MandelStep(s.z, c)
       IN [z |-> z1, out |-> IF Escaped(z1) THEN Gray(Uint8(i % 256)) ELSE NoColour]

RECURSIVE MandelLoop(_, _, _, _)
\* Line 26: iterations i, i+1, ..., i+n-1 of the loop in this order (the range is
\* halved only to keep the depth of evaluation logarithmic in n).
MandelLoop(s, c, i, n) ==
  IF n = 0 THEN s
  ELSE IF n = 1 THEN MandelIter(s, c, i)
  ELSE LET half == MandelLoop(s, c, i, n \div 2)
       IN IF half.out.kind # "none" THEN half
          ELSE MandelLoop(half, c, i + n \div 2, n - n \div 2)

\* Lines 24-33.
mandelbrot(c) ==
  LET s == MandelLoop([z |-> ComplexNumber(0, 0), out |-> NoColour], c, 0, maxIter)
  IN IF s.out.kind = "none" THEN Black ELSE s.out

(***************************************************************************)
(* The per-pixel work of the two renderers.                                *)
(***************************************************************************)
\* mandelbrot is a pure function: its values on the points the coordinate mappings
\* below can produce are computed once, and looked up.
GridPoints == {ComplexNumber(a, b) : a \in -Size .. Size, b \in -Size .. Size}
MandelTable == [c \in GridPoints |-> mandelbrot(c)]
mandelbrotAt(c) == IF c \in GridPoints THEN MandelTable[c] ELSE mandelbrot(c)

\* float64(n) / d where d divides n: the quotient, exact in float64.
FloatDiv(n, d) == CHOOSE q \in -(n * n) - 1 .. n * n + 1 : q * d = n

\* Lines 39-42: the point generateMandelbrotSequential computes for pixel (x, y).
SeqPoint(x, y) ==
  ComplexNumber(FloatDiv(x - width \div 2, width \div 4),
                FloatDiv(y - height \div 2, height \div 4))

\* ParPoint with the two axes exchanged.
ParPointSwapped(x, y) ==
  ComplexNumber(FloatDiv(y - height \div 2, height \div 4),
                FloatDiv(x - width \div 2, width \div 4))

\* Lines 58-61: the point a column unit computes for pixel (x, y).
ParPoint(x, y) ==
  ComplexNumber(FloatDiv(x - width \div 2, width \div 4),
                FloatDiv(y - height \div 2, height \div 4))

\* Lines 44-45 and 63-64: the source pixel's channels shifted to 8 bits, alpha 255.
Requantize(c) ==
  LET q == RGBA16(c)
  IN RGBA(Uint8(Shr8(q.r)), Uint8(Shr8(q.g)), Uint8(Shr8(q.b)), 255)

\* SeqPixel blending the source pixel over what the raster holds instead of
\* replacing it.
SeqPixelOverlay(img, existingImg, x, y) ==
  LET old == At(img, x, y)
      src == Requantize(At(existingImg, x, y))
  IN Set(img, x, y, RGBA((old.r + src.r) \div 2, (old.g + src.g) \div 2,
                         (old.b + src.b) \div 2, 255))

\* SeqPixel writing the source pixel first and the fractal colour last.
SeqPixelFractalLast(img, existingImg, x, y) ==
  LET source == Set(img, x, y, Requantize(At(existingImg, x, y)))
  IN Set(source, x, y, mandelbrotAt(SeqPoint(x, y)))

\* Lines 39-45: the body of the sequential loop for pixel (x, y).
SeqPixel(img, existingImg, x, y) ==
  LET fractal == Set(img, x, y, mandelbrotAt(SeqPoint(x, y)))
  IN Set(fractal, x, y, Requantize(At(existingImg, x, y)))

\* ParPixel without its second write.
ParPixelFractalOnly(img, existingImg, x, y) == Set(img, x, y, mandelbrotAt(ParPoint(x, y)))

\* Lines 58-64: the body of a column unit's loop for pixel (x, y).
ParPixel(img, existingImg, x, y) ==
  LET fractal == Set(img, x, y, mandelbrotAt(ParPoint(x, y)))
  IN Set(fractal, x, y, Requantize(At(existingImg, x, y)))

\* Lines 112-119: copyImage(destImg, srcImg).
copyImage(destImg, srcImg) ==
  [destImg EXCEPT !.pix = [pt \in Pixels(destImg.w, destImg.h) |->
                             ConvertRGBA(At(srcImg, pt[1], pt[2]))]]

\* UnitArg when every unit reads one shared x instead of its own copy.
UnitArgShared(x) == 0

\* Line 66: the column a unit is given, the loop variable passed by value.
UnitArg(x) == x

(***************************************************************************)
(* Input files.  The pixels of a decoded image are the 16-bit channels     *)
(* their RGBA() returns; OpaqueA is fully opaque, TransB is not.           *)
(***************************************************************************)
OpaqueA == C16(65535, 32896, 4660, 65535)
TransB == C16(16384, 8192, 511, 32768)

\* A Size x Size image, opaque and translucent pixels alternating.
ImgFull ==
  [w |-> Size, h |-> Size,
   pix |-> [pt \in Pixels(Size, Size) |-> IF (pt[1] + pt[2]) % 2 = 0 THEN OpaqueA ELSE TransB]]
\* Smaller than the raster the constants describe.
ImgSmall ==
  [w |-> 2, h |-> 3, pix |-> [pt \in Pixels(2, 3) |-> IF pt[1] = 0 THEN TransB ELSE OpaqueA]]
\* One column wider than Size, the last column translucent.
ImgWide ==
  [w |-> Size + 1, h |-> 1,
   pix |-> [pt \in Pixels(Size + 1, 1) |-> IF pt[1] = Size THEN TransB ELSE OpaqueA]]
\* One row taller than Size, fully opaque.
ImgTall == [w |-> 1, h |-> Size + 1, pix |-> [pt \in Pixels(1, Size + 1) |-> OpaqueA]]
\* A single translucent pixel.
ImgTiny == [w |-> 1, h |-> 1, pix |-> [pt \in Pixels(1, 1) |-> TransB]]
\* Lines 136-140: the image at each preset's path, a single pixel that no other
\* preset's image has.
PresetImage(p) ==
  CASE p = "easy" -> ImgTiny
    [] p = "normal" -> [w |-> 1, h |-> 1, pix |-> [pt \in Pixels(1, 1) |-> OpaqueA]]
    [] p = "hard" -> [w |-> 1, h |-> 1,
                      pix |-> [pt \in Pixels(1, 1) |-> C16(4096, 8192, 12288, 49152)]]

SourceImages == {ImgFull, ImgSmall, ImgWide, ImgTall}
\* What os.Open and image.Decode can find at a preset's input path: no file, a file
\* that is no image, or an image.
Missing == [state |-> "missing", img |-> NilImage]
Corrupt == [state |-> "corrupt", img |-> NilImage]
Png(img) == [state |-> "png", img |-> img]
DiskStates == {Missing, Corrupt} \cup {Png(img) : img \in SourceImages}
\* What os.Create and png.Encode can do in saveImage.
SaveOutcomes == {"ok", "createErr", "encodeErr"}

NoFile == [status |-> "absent", img |-> NilImage]

(***************************************************************************)
(* State.  proc[p] is the state of processImage for preset p: its place    *)
(* (pc), its locals, its output files, what it has printed and timed       *)
(* (log), and a record of the pixels its renderers wrote: seqTrace, the     *)
(* sequential loop's <<x, y, point>> in order, and parTrace, the units'    *)
(* <<unit, x, y, point>>.                                                  *)
(***************************************************************************)
VARIABLES
  disk,      \* disk[p]: the input file of preset p
  proc,      \* proc[p]: processImage(file, level, &wg) of preset p
  mainPc,    \* main: "loop" (lines 143-146), "wait" (148), "done"
  outerWg,   \* main's WaitGroup counter
  panicked,  \* a WaitGroup counter went negative: the process has died
  evalIn,    \* the point handed to mandelbrot
  evalOut,   \* what mandelbrot returned for it
  evalRun,   \* one call of mandelbrot, iteration by iteration
  rerun      \* generateMandelbrotSequential called repeatedly on one source image

vars == <<disk, proc, mainPc, outerWg, panicked, evalIn, evalOut, evalRun, rerun>>

\* No call of mandelbrot is being followed; no renderer is being called again.
NoEvalRun == [pc |-> "none"]
NoRerun == [pc |-> "none"]

NoUnit == [pc |-> "none", x |-> 0, y |-> 0]

ProcInit ==
  [pc |-> "unlaunched",
   existingImg |-> NilImage, sequentialImg |-> NilImage, parallelImg |-> NilImage,
   sx |-> 0, sy |-> 0,
   lx |-> 0, unit |-> [i \in 0 .. width - 1 |-> NoUnit], wg |-> 0,
   seqFile |-> NoFile, parFile |-> NoFile,
   log |-> <<>>, doneCalls |-> 0,
   seqTrace |-> <<>>, parTrace |-> {}]

Say(st, events) == [st EXCEPT !.log = @ \o events]

(***************************************************************************)
(* processImage, statement by statement, as functions of its state.        *)
(***************************************************************************)
\* Lines 73 and 110: return, running the deferred wg.Done.
ReturnF(st) == [st EXCEPT !.pc = "done", !.doneCalls = @ + 1]

\* OpenF calling wg.Done on the error path as well as deferring it.
OpenFDoneTwice(st, file) ==
  IF file.state = "missing"
  THEN [ReturnF(Say(st, <<"processing", "openErr">>)) EXCEPT !.doneCalls = @ + 1]
  ELSE [Say(st, <<"processing">>) EXCEPT !.pc = "opened"]

\* Lines 74-81.
OpenF(st, file) ==
  IF file.state = "missing"
  THEN ReturnF(Say(st, <<"processing", "openErr">>))
  ELSE [Say(st, <<"processing">>) EXCEPT !.pc = "opened"]

\* DecodeF printing the decode error and going on.
DecodeFNoReturn(st, file) ==
  IF file.state = "corrupt"
  THEN [Say(st, <<"decodeErr">>) EXCEPT !.pc = "decoded", !.existingImg = file.img]
  ELSE [st EXCEPT !.pc = "decoded", !.existingImg = file.img]

\* DecodeF returning on the decode error without wg.Done.
DecodeFNoDone(st, file) ==
  IF file.state = "corrupt"
  THEN [Say(st, <<"decodeErr">>) EXCEPT !.pc = "done"]
  ELSE [st EXCEPT !.pc = "decoded", !.existingImg = file.img]

\* Lines 83-87.
DecodeF(st, file) ==
  IF file.state = "corrupt"
  THEN ReturnF(Say(st, <<"decodeErr">>))
  ELSE [st EXCEPT !.pc = "decoded", !.existingImg = file.img]

\* Lines 89-90.
AllocF(st) ==
  [st EXCEPT !.pc = "allocated",
             !.sequentialImg = NewRGBA(st.existingImg.w, st.existingImg.h),
             !.parallelImg = NewRGBA(st.existingImg.w, st.existingImg.h)]

\* CopySequentialF with the arguments of copyImage exchanged.
CopySequentialFSwapped(st) ==
  [Say(st, <<"copySeq">>) EXCEPT !.pc = "seqSeeded",
                                 !.existingImg = copyImage(@, st.sequentialImg)]

\* Line 92.
CopySequentialF(st) ==
  [Say(st, <<"copySeq">>) EXCEPT !.pc = "seqSeeded",
                                 !.sequentialImg = copyImage(@, st.existingImg)]

\* Line 93.
CopyParallelF(st) ==
  [Say(st, <<"copyPar">>) EXCEPT !.pc = "parSeeded",
                                 !.parallelImg = copyImage(@, st.existingImg)]

\* Lines 95-96 and 36-37: the start instant, the call, the loop variables at bounds.Min.
StartSequentialF(st) ==
  [Say(st, <<"startSeq", "callSeq">>) EXCEPT !.pc = "seq", !.sx = 0, !.sy = 0]

\* SeqStepF when the sequential renderer was handed the parallel raster.
SeqStepFOnParallel(st) ==
  LET last == st.sy + 1 >= st.sequentialImg.h
  IN [st EXCEPT !.parallelImg = SeqPixel(@, st.existingImg, st.sx, st.sy),
                !.seqTrace = Append(@, <<st.sx, st.sy, SeqPoint(st.sx, st.sy)>>),
                !.sx = IF last THEN @ + 1 ELSE @,
                !.sy = IF last THEN 0 ELSE @ + 1]

\* SeqStepF leaving a column one pixel before its end.
SeqStepFSkipsLastRow(st) ==
  LET last == st.sy + 2 >= st.sequentialImg.h
  IN [st EXCEPT !.sequentialImg = SeqPixel(@, st.existingImg, st.sx, st.sy),
                !.seqTrace = Append(@, <<st.sx, st.sy, SeqPoint(st.sx, st.sy)>>),
                !.sx = IF last THEN @ + 1 ELSE @,
                !.sy = IF last THEN 0 ELSE @ + 1]

\* Lines 37-46: one pixel of the sequential loop, then y++ (and x++ at the column's end).
SeqStepF(st) ==
  LET last == st.sy + 1 >= st.sequentialImg.h
  IN [st EXCEPT !.sequentialImg = SeqPixel(@, st.existingImg, st.sx, st.sy),
                !.seqTrace = Append(@, <<st.sx, st.sy, SeqPoint(st.sx, st.sy)>>),
                !.sx = IF last THEN @ + 1 ELSE @,
                !.sy = IF last THEN 0 ELSE @ + 1]

\* Lines 47 and 97: the renderer returns, the stop instant.
StopSequentialF(st) == [Say(st, <<"retSeq", "stopSeq">>) EXCEPT !.pc = "seqTimed"]

\* Lines 121-133: saveImage(img, fileName) on the file it names.
saveImage(img, file, outcome) ==
  CASE outcome = "createErr" -> file
    [] outcome = "encodeErr" -> [status |-> "partial", img |-> NilImage]
    [] outcome = "ok" -> [status |-> "complete", img |-> img]

\* What saveImage prints.
SavePrints(outcome) == IF outcome = "ok" THEN <<>> ELSE <<outcome>>

\* Lines 99-100.
SaveSequentialF(st, outcome) ==
  [Say(st, <<"saveSeq">> \o SavePrints(outcome)) EXCEPT
     !.pc = "seqSaved", !.seqFile = saveImage(st.sequentialImg, @, outcome)]

\* Line 101.
ReportSequentialF(st) == [Say(st, <<"reportSeq">>) EXCEPT !.pc = "seqReported"]

\* StartParallelF adding one less than the number of units to the counter.
StartParallelFAddsOneLess(st) ==
  [Say(st, <<"startPar", "callPar">>) EXCEPT !.pc = "launch", !.wg = @ + height - 1, !.lx = 0]

\* Lines 103-104 and 51-52: the start instant, the call, wg.Add(height).
StartParallelF(st) ==
  [Say(st, <<"startPar", "callPar">>) EXCEPT !.pc = "launch", !.wg = @ + height, !.lx = 0]

\* LaunchF when a unit's loop starts at its second pixel.
LaunchFFromRowOne(st) ==
  [st EXCEPT !.unit[st.lx] = [pc |-> "run", x |-> UnitArg(st.lx), y |-> 1],
             !.lx = @ + 1]

\* Lines 54-55 and 66: go func(x) for the loop's current x, then x++.
LaunchF(st) ==
  [st EXCEPT !.unit[st.lx] = [pc |-> "run", x |-> UnitArg(st.lx), y |-> 0],
             !.lx = @ + 1]

\* Lines 57-65: one pixel of unit i's loop, then y++.
UnitStepF(st, i) ==
  LET u == st.unit[i]
  IN [st EXCEPT !.parallelImg = ParPixel(@, st.existingImg, u.x, u.y),
                !.parTrace = IF InBounds(st.parallelImg, u.x, u.y)
                             THEN @ \cup {<<i, u.x, u.y, ParPoint(u.x, u.y)>>} ELSE @,
                !.unit[i].y = @ + 1]

\* Line 56: unit i returns, running its deferred wg.Done.
UnitExitF(st, i) == [st EXCEPT !.unit[i].pc = "done", !.wg = @ - 1]

\* WaitReady when the renderer does not wait.
WaitReadyAlways(st) == TRUE

\* Line 69: wg.Wait returns once the counter is zero.
WaitReady(st) == st.wg = 0

\* StopParallelF taking the stop instant before the renderer has returned.
StopParallelFBeforeReturn(st) == [Say(st, <<"stopPar", "retPar">>) EXCEPT !.pc = "parTimed"]

\* Lines 69-70 and 105: Wait returns, the renderer returns, the stop instant.
StopParallelF(st) == [Say(st, <<"retPar", "stopPar">>) EXCEPT !.pc = "parTimed"]

\* Lines 107-108.
SaveParallelF(st, outcome) ==
  [Say(st, <<"savePar">> \o SavePrints(outcome)) EXCEPT
     !.pc = "parSaved", !.parFile = saveImage(st.parallelImg, @, outcome)]

\* Line 109.
ReportParallelF(st) == [Say(st, <<"reportPar">>) EXCEPT !.pc = "parReported"]

(***************************************************************************)
(* Actions.  A step of processImage(p) replaces proc[p]; a deferred        *)
(* wg.Done it runs lowers main's counter; a negative WaitGroup counter     *)
(* panics, which ends the process, as does main's return.                  *)
(***************************************************************************)
\* Step when the rasters are one package-level pair that every preset renders into.
StepSharedRasters(p, new) ==
  /\ ~panicked
  /\ mainPc # "done"
  /\ proc' = [q \in Levels |->
               IF q = p THEN new
               ELSE [proc[q] EXCEPT !.sequentialImg = new.sequentialImg,
                                    !.parallelImg = new.parallelImg]]
  /\ outerWg' = outerWg - (new.doneCalls - proc[p].doneCalls)
  /\ panicked' = (new.wg < 0 \/ outerWg' < 0)
  /\ UNCHANGED <<disk, mainPc, evalIn, evalOut, evalRun, rerun>>

\* Lines 72-110: a step of processImage(p), from proc[p] to new.
Step(p, new) ==
  /\ ~panicked
  /\ mainPc # "done"
  /\ proc' = [proc EXCEPT ![p] = new]
  /\ outerWg' = outerWg - (new.doneCalls - proc[p].doneCalls)
  /\ panicked' = (new.wg < 0 \/ outerWg' < 0)
  /\ UNCHANGED <<disk, mainPc, evalIn, evalOut, evalRun, rerun>>

Open(p) == proc[p].pc = "start" /\ Step(p, OpenF(proc[p], disk[p]))

Decode(p) == proc[p].pc = "opened" /\ Step(p, DecodeF(proc[p], disk[p]))

Alloc(p) == proc[p].pc = "decoded" /\ Step(p, AllocF(proc[p]))

CopySequential(p) == proc[p].pc = "allocated" /\ Step(p, CopySequentialF(proc[p]))

CopyParallel(p) == proc[p].pc = "seqSeeded" /\ Step(p, CopyParallelF(proc[p]))

StartSequential(p) == proc[p].pc = "parSeeded" /\ Step(p, StartSequentialF(proc[p]))

SeqStep(p) ==
  /\ proc[p].pc = "seq"
  /\ proc[p].sx < proc[p].sequentialImg.w
  /\ Step(p, SeqStepF(proc[p]))

StopSequential(p) ==
  /\ proc[p].pc = "seq"
  /\ proc[p].sx >= proc[p].sequentialImg.w
  /\ Step(p, StopSequentialF(proc[p]))

SaveSequential(p) ==
  /\ proc[p].pc = "seqTimed"
  /\ \E outcome \in SaveOutcomes : Step(p, SaveSequentialF(proc[p], outcome))

ReportSequential(p) == proc[p].pc = "seqSaved" /\ Step(p, ReportSequentialF(proc[p]))

StartParallel(p) == proc[p].pc = "seqReported" /\ Step(p, StartParallelF(proc[p]))

Launch(p) ==
  /\ proc[p].pc = "launch"
  /\ proc[p].lx < width
  /\ Step(p, LaunchF(proc[p]))

UnitStep(p, i) ==
  /\ proc[p].unit[i].pc = "run"
  /\ proc[p].unit[i].y < height
  /\ Step(p, UnitStepF(proc[p], i))

UnitExit(p, i) ==
  /\ proc[p].unit[i].pc = "run"
  /\ proc[p].unit[i].y >= height
  /\ Step(p, UnitExitF(proc[p], i))

StopParallel(p) ==
  /\ proc[p].pc = "launch"
  /\ proc[p].lx >= width
  /\ WaitReady(proc[p])
  /\ Step(p, StopParallelF(proc[p]))

SaveParallel(p) ==
  /\ proc[p].pc = "parTimed"
  /\ \E outcome \in SaveOutcomes : Step(p, SaveParallelF(proc[p], outcome))

ReportParallel(p) == proc[p].pc = "parSaved" /\ Step(p, ReportParallelF(proc[p]))

Return(p) == proc[p].pc = "parReported" /\ Step(p, ReturnF(proc[p]))

\* Lines 143-146: wg.Add(1) and go processImage for one more preset, in map order.
MainLaunch(p) ==
  /\ ~panicked
  /\ mainPc = "loop"
  /\ proc[p].pc = "unlaunched"
  /\ proc' = [proc EXCEPT ![p].pc = "start"]
  /\ outerWg' = outerWg + 1
  /\ mainPc' = IF \A q \in Levels \ {p} : proc[q].pc # "unlaunched" THEN "wait" ELSE "loop"
  /\ UNCHANGED <<disk, panicked, evalIn, evalOut, evalRun, rerun>>

\* Line 148: wg.Wait returns once the counter is zero, and main returns.
MainWait ==
  /\ ~panicked
  /\ mainPc = "wait"
  /\ outerWg = 0
  /\ mainPc' = "done"
  /\ UNCHANGED <<disk, proc, outerWg, panicked, evalIn, evalOut, evalRun, rerun>>

(***************************************************************************)
(* RenderSpec: one processImage call, statement by statement, from its     *)
(* entry to its return, over every input file and every schedule of its    *)
(* column units.  main waits at wg.Wait; the sibling calls stay at their   *)
(* entry.                                                                  *)
(***************************************************************************)
RenderLevel == "easy"

RenderInit ==
  /\ disk \in [Levels -> DiskStates]
  /\ \A p \in Levels \ {RenderLevel} : disk[p] = Missing
  /\ proc = [p \in Levels |-> [ProcInit EXCEPT !.pc = "start"]]
  /\ mainPc = "wait"
  /\ outerWg = Cardinality(Levels)
  /\ panicked = FALSE
  /\ evalIn = ComplexNumber(0, 0)
  /\ evalOut = NoColour
  /\ evalRun = NoEvalRun
  /\ rerun = NoRerun

RenderNext ==
  \E p \in {RenderLevel} :
    \/ Open(p) \/ Decode(p) \/ Alloc(p) \/ CopySequential(p) \/ CopyParallel(p)
    \/ StartSequential(p) \/ SeqStep(p) \/ StopSequential(p)
    \/ SaveSequential(p) \/ ReportSequential(p)
    \/ StartParallel(p) \/ Launch(p)
    \/ \E i \in 0 .. width - 1 : UnitStep(p, i) \/ UnitExit(p, i)
    \/ StopParallel(p) \/ SaveParallel(p) \/ ReportParallel(p) \/ Return(p)

RenderSpec == RenderInit /\ [][RenderNext]_vars

(***************************************************************************)
(* EvalSpec: mandelbrot applied to one point.                              *)
(***************************************************************************)
EvalPoints ==
  {ComplexNumber(a, b) : a \in -EvalRange .. EvalRange, b \in -EvalRange .. EvalRange}

EvalInit ==
  /\ evalIn \in EvalPoints
  /\ evalOut = NoColour
  /\ evalRun = NoEvalRun
  /\ rerun = NoRerun
  /\ disk = [p \in Levels |-> Missing]
  /\ proc = [p \in Levels |-> ProcInit]
  /\ mainPc = "loop"
  /\ outerWg = 0
  /\ panicked = FALSE

Evaluate ==
  /\ evalOut = NoColour
  /\ evalOut' = mandelbrot(evalIn)
  /\ UNCHANGED <<disk, proc, mainPc, outerWg, panicked, evalIn, evalRun, rerun>>

EvalNext == Evaluate

EvalSpec == EvalInit /\ [][EvalNext]_vars

(***************************************************************************)
(* EvalLoopSpec: one call of mandelbrot, an iteration of its loop at a     *)
(* time.  evalRun holds the argument c, the loop variable i, the loop's    *)
(* state s, every value z was given in order (orbit), and what the call    *)
(* returned (ret).                                                         *)
(***************************************************************************)
\* Lines 25-26: the entry of mandelbrot(c).
EvalEntry(c) ==
  [pc |-> "loop", c |-> c, i |-> 0,
   s |-> [z |-> ComplexNumber(0, 0), out |-> NoColour],
   orbit |-> <<>>, ret |-> NoColour]

\* Lines 26-31: the iteration of index r.i, which returns or goes on to i++.
IterateF(r) ==
  LET s1 == MandelIter(r.s, r.c, r.i)
  IN IF s1.out.kind # "none"
     THEN [r EXCEPT !.s = s1, !.orbit = Append(@, s1.z), !.pc = "returned", !.ret = s1.out]
     ELSE [r EXCEPT !.s = s1, !.orbit = Append(@, s1.z), !.i = @ + 1]

\* Lines 26 and 32: the loop condition fails, return color.Black.
LoopExitF(r) == [r EXCEPT !.pc = "returned", !.ret = Black]

EvalLoopInit ==
  /\ evalRun \in {EvalEntry(c) : c \in EvalPoints}
  /\ rerun = NoRerun
  /\ evalIn = ComplexNumber(0, 0)
  /\ evalOut = NoColour
  /\ disk = [p \in Levels |-> Missing]
  /\ proc = [p \in Levels |-> ProcInit]
  /\ mainPc = "loop"
  /\ outerWg = 0
  /\ panicked = FALSE

Iterate ==
  /\ evalRun.pc = "loop"
  /\ evalRun.i < maxIter
  /\ evalRun' = IterateF(evalRun)
  /\ UNCHANGED <<disk, proc, mainPc, outerWg, panicked, evalIn, evalOut, rerun>>

LoopExit ==
  /\ evalRun.pc = "loop"
  /\ evalRun.i >= maxIter
  /\ evalRun' = LoopExitF(evalRun)
  /\ UNCHANGED <<disk, proc, mainPc, outerWg, panicked, evalIn, evalOut, rerun>>

EvalLoopNext == Iterate \/ LoopExit

EvalLoopSpec == EvalLoopInit /\ [][EvalLoopNext]_vars

(***************************************************************************)
(* MainSpec: the whole program, main and the three processImage            *)
(* goroutines, over every combination of input files and every schedule    *)
(* of the steps below.  Code that touches only its goroutine's own data    *)
(* runs as one step, the composition of the statements RenderSpec takes    *)
(* one at a time: the seeding and the sequential render; the launch loop;  *)
(* a column unit's whole loop.  A save succeeds or fails at os.Create.     *)
(***************************************************************************)
RECURSIVE SeqRunF(_)
\* Lines 37-47: the sequential loop to its end.
SeqRunF(st) ==
  IF st.sx < st.sequentialImg.w
  THEN CHOOSE end \in {SeqRunF(next) : next \in {SeqStepF(st)}} : TRUE
  ELSE st

RECURSIVE LaunchAllF(_)
\* Lines 54-67: the launch loop to its end.
LaunchAllF(st) ==
  IF st.lx < width
  THEN CHOOSE end \in {LaunchAllF(next) : next \in {LaunchF(st)}} : TRUE
  ELSE st

RECURSIVE UnitRunF(_, _)
\* Lines 56-65: unit i's loop to its end, and its deferred wg.Done.
UnitRunF(st, i) ==
  IF st.unit[i].y < height
  THEN CHOOSE end \in {UnitRunF(next, i) : next \in {UnitStepF(st, i)}} : TRUE
  ELSE UnitExitF(st, i)

MainSaveOutcomes == {"ok", "createErr"}

\* Lines 89-97.
RunSequential(p) ==
  /\ proc[p].pc = "decoded"
  /\ \E allocated \in {AllocF(proc[p])} :
     \E seqSeeded \in {CopySequentialF(allocated)} :
     \E parSeeded \in {CopyParallelF(seqSeeded)} :
     \E started \in {StartSequentialF(parSeeded)} :
     \E rendered \in {SeqRunF(started)} :
       Step(p, StopSequentialF(rendered))

\* Lines 99-100.
SaveSequentialMain(p) ==
  /\ proc[p].pc = "seqTimed"
  /\ \E outcome \in MainSaveOutcomes : Step(p, SaveSequentialF(proc[p], outcome))

\* Lines 101-104, 51-55 and 66-67.
BeginParallel(p) ==
  /\ proc[p].pc = "seqSaved"
  /\ \E reported \in {ReportSequentialF(proc[p])} :
     \E started \in {StartParallelF(reported)} :
     \E launched \in {LaunchAllF(started)} :
       Step(p, launched)

\* Lines 56-65.
UnitRun(p, i) ==
  /\ proc[p].unit[i].pc = "run"
  /\ proc[p].unit[i].y = 0
  /\ \E finished \in {UnitRunF(proc[p], i)} : Step(p, finished)

\* Lines 107-108.
SaveParallelMain(p) ==
  /\ proc[p].pc = "parTimed"
  /\ \E outcome \in MainSaveOutcomes : Step(p, SaveParallelF(proc[p], outcome))

\* Lines 109-110.
Finish(p) ==
  /\ proc[p].pc = "parSaved"
  /\ \E reported \in {ReportParallelF(proc[p])} : Step(p, ReturnF(reported))

MainInit ==
  /\ disk \in [Levels -> {Missing, Corrupt} \cup {Png(PresetImage(q)) : q \in Levels}]
  /\ \A p \in Levels : disk[p].state = "png" => disk[p] = Png(PresetImage(p))
  /\ proc = [p \in Levels |-> ProcInit]
  /\ mainPc = "loop"
  /\ outerWg = 0
  /\ panicked = FALSE
  /\ evalIn = ComplexNumber(0, 0)
  /\ evalOut = NoColour
  /\ evalRun = NoEvalRun
  /\ rerun = NoRerun

MainNext ==
  \/ \E p \in Levels :
       \/ MainLaunch(p)
       \/ Open(p) \/ Decode(p) \/ RunSequential(p) \/ SaveSequentialMain(p)
       \/ BeginParallel(p)
       \/ \E i \in 0 .. width - 1 : UnitRun(p, i)
       \/ StopParallel(p) \/ SaveParallelMain(p) \/ Finish(p)
  \/ MainWait

MainSpec == MainInit /\ [][MainNext]_vars

(***************************************************************************)
(* RerunSpec: generateMandelbrotSequential as a function of its two        *)
(* arguments, called again and again with one source image, on the raster  *)
(* the last call rendered or on another raster of the same bounds.         *)
(***************************************************************************)
\* The number of calls followed.
MaxRuns == 2

\* Lines 35-48: generateMandelbrotSequential(img, existingImg), by the raster it
\* leaves in img.
generateMandelbrotSequential(img, existingImg) ==
  LET entry == [ProcInit EXCEPT !.sequentialImg = img, !.existingImg = existingImg]
  IN (CHOOSE end \in {SeqRunF(started) : started \in {StartSequentialF(entry)}} : TRUE
     ).sequentialImg

\* Source images: those of RenderSpec, and every 2 x 2 image of the two pixels.
RerunSources ==
  SourceImages \cup {ImgTiny}
    \cup {[w |-> 2, h |-> 2, pix |-> f] : f \in [Pixels(2, 2) -> {OpaqueA, TransB}]}

\* Rasters of a source's bounds: as image.NewRGBA returns it, as copyImage seeds
\* it, and holding other pixels.
RerunRasters(src) ==
  {NewRGBA(src.w, src.h),
   copyImage(NewRGBA(src.w, src.h), src),
   [w |-> src.w, h |-> src.h, pix |-> [pt \in Pixels(src.w, src.h) |-> RGBA(1, 2, 3, 4)]]}

RerunInit ==
  /\ rerun \in {[pc |-> "ready", existingImg |-> src, img |-> r, runs |-> <<>>] :
                  src \in RerunSources, r \in UNION {RerunRasters(e) : e \in RerunSources}}
  /\ rerun.img \in RerunRasters(rerun.existingImg)
  /\ disk = [p \in Levels |-> Missing]
  /\ proc = [p \in Levels |-> ProcInit]
  /\ mainPc = "loop"
  /\ outerWg = 0
  /\ panicked = FALSE
  /\ evalIn = ComplexNumber(0, 0)
  /\ evalOut = NoColour
  /\ evalRun = NoEvalRun

\* One more call on the raster the last call was given.
RunAgain ==
  /\ rerun.pc = "ready"
  /\ Len(rerun.runs) < MaxRuns
  /\ \E out \in {generateMandelbrotSequential(rerun.img, rerun.existingImg)} :
       rerun' = [rerun EXCEPT !.img = out, !.runs = Append(@, [on |-> "same", out |-> out])]
  /\ UNCHANGED <<disk, proc, mainPc, outerWg, panicked, evalIn, evalOut, evalRun>>

\* One more call on another raster.
RunOther ==
  /\ rerun.pc = "ready"
  /\ Len(rerun.runs) < MaxRuns
  /\ \E r \in RerunRasters(rerun.existingImg) :
     \E out \in {generateMandelbrotSequential(r, rerun.existingImg)} :
       rerun' = [rerun EXCEPT !.img = out, !.runs = Append(@, [on |-> "other", out |-> out])]
  /\ UNCHANGED <<disk, proc, mainPc, outerWg, panicked, evalIn, evalOut, evalRun>>

RerunNext == RunAgain \/ RunOther

RerunSpec == RerunInit /\ [][RerunNext]_vars

(***************************************************************************)
(* Vocabulary of the properties.                                           *)
(***************************************************************************)
Printed(st, event) == \E k \in 1 .. Len(st.log) : st.log[k] = event

\* generateMandelbrotSequential has returned.
SeqReturned(st) == Printed(st, "retSeq")
\* generateMandelbrotParallel has returned.
ParReturned(st) == Printed(st, "retPar")
\* Unit i has signalled completion and has no pixel left.
UnitFinished(st, i) == st.unit[i].pc = "done" /\ st.unit[i].y = height
\* The source pixel with R, G, B shifted from 16 to 8 bits and alpha forced to 255.
Shifted(c) == [kind |-> "RGBA", r |-> c.r \div 256, g |-> c.g \div 256, b |-> c.b \div 256, a |-> 255]
\* The pixels of the W x H raster that an image of these bounds has.
RasterPixels(img) == Pixels(img.w, img.h) \cap Pixels(width, height)

(***************************************************************************)
(* Properties of one processImage call (RenderSpec).                       *)
(***************************************************************************)
\* C1: for a source image of the W x H bounds, once generateMandelbrotSequential and
\* generateMandelbrotParallel have both returned, the two rasters hold the same
\* colour at every pixel of [0,W) x [0,H), whatever the schedule of the column units.
C1_SameRaster ==
  \A p \in Levels :
    LET st == proc[p]
    IN (/\ SeqReturned(st) /\ ParReturned(st)
        /\ st.existingImg.w = width /\ st.existingImg.h = height)
       => \A pt \in Pixels(width, height) : st.sequentialImg.pix[pt] = st.parallelImg.pix[pt]

\* Both renderers have returned on a W x H image whose pixels the renderers changed.
C1_Witness ==
  \E p \in Levels :
    /\ proc[p].pc = "parTimed"
    /\ proc[p].existingImg = ImgFull
    /\ proc[p].parallelImg.pix[<<0, 1>>] = RGBA(64, 32, 1, 255)
    /\ proc[p].sequentialImg.pix[<<0, 1>>] = RGBA(64, 32, 1, 255)

\* C2: whenever wg.Wait can return or has returned, so when the driver takes the
\* parallel elapsed time, hands the parallel raster to saveImage or prints the
\* parallel timing, all W column units have been launched, have signalled
\* completion and have no pixel left to write.
C2_JoinBarrier ==
  \A p \in Levels :
    LET st == proc[p]
    IN (\/ (st.pc = "launch" /\ st.lx >= width /\ WaitReady(st))
        \/ st.pc \in {"parTimed", "parSaved", "parReported"}
        \/ Printed(st, "stopPar") \/ Printed(st, "savePar") \/ Printed(st, "reportPar"))
       => (st.lx = width /\ \A i \in 0 .. width - 1 : UnitFinished(st, i))

\* The parallel raster is being saved, the units having written W x H pixels.
C2_Witness ==
  \E p \in Levels :
    /\ proc[p].pc = "parSaved"
    /\ Cardinality(proc[p].parTrace) = width * height
    /\ \A i \in 0 .. width - 1 : UnitFinished(proc[p], i)

\* C3: unit i writes only pixels (i, y) with 0 <= y < H; no pixel is ever written
\* by two units; and when the renderer returns every pixel of the W x H raster has
\* exactly one writing unit.
C3_DisjointColumns ==
  \A p \in Levels :
    LET st == proc[p]
        written == {<<t[2], t[3]>> : t \in st.parTrace}
        writers == {<<t[1], t[2], t[3]>> : t \in st.parTrace}
    IN /\ \A t \in st.parTrace : t[2] = t[1] /\ t[3] >= 0 /\ t[3] < height
       /\ Cardinality(written) = Cardinality(writers)
       /\ ParReturned(st) => written = RasterPixels(st.parallelImg)

\* Two units are in the middle of their columns, each having written its own pixels.
C3_Witness ==
  \E p \in Levels :
    /\ proc[p].unit[0].pc = "run" /\ proc[p].unit[0].y = 2
    /\ proc[p].unit[1].pc = "run" /\ proc[p].unit[1].y = 1
    /\ {<<t[1], t[2], t[3]>> : t \in proc[p].parTrace} = {<<0, 0, 0>>, <<0, 0, 1>>, <<1, 1, 0>>}

C5_AnyBounds ==
  \A p \in Levels :
    (SeqReturned(proc[p]) /\ ParReturned(proc[p]))
      => proc[p].sequentialImg = proc[p].parallelImg

\* C10: both renderers map pixel (x, y) to real = (x - W/2) / (W/4) and
\* imag = (y - H/2) / (H/4), the divisions of the constants truncating; the centre
\* pixel (W/2, H/2), which is (400, 400) for W = H = 800, maps to (0, 0); and for
\* every pixel the parallel renderer computes the point the sequential one computed.
C10_CoordinateMapping ==
  \A p \in Levels :
    LET st == proc[p]
        seqPoints == {st.seqTrace[k] : k \in 1 .. Len(st.seqTrace)}
        parPoints == {<<t[2], t[3], t[4]>> : t \in st.parTrace}
    IN /\ \A t \in seqPoints \cup parPoints :
            /\ t[3].Real * (width \div 4) = t[1] - width \div 2
            /\ t[3].Imag * (height \div 4) = t[2] - height \div 2
            /\ (t[1] = width \div 2 /\ t[2] = height \div 2) => t[3] = ComplexNumber(0, 0)
       /\ parPoints \subseteq seqPoints

\* Both renderers have computed the point of the centre pixel and of pixel (0, 1).
C10_Witness ==
  \E p \in Levels :
    /\ \E k \in 1 .. Len(proc[p].seqTrace) :
         proc[p].seqTrace[k] = <<width \div 2, height \div 2, ComplexNumber(0, 0)>>
    /\ <<width \div 2, width \div 2, height \div 2, ComplexNumber(0, 0)>> \in proc[p].parTrace
    /\ <<0, 0, 1, ComplexNumber(-(width \div 2), 1 - height \div 2)>> \in proc[p].parTrace

(***************************************************************************)
(* Properties of the evaluator (EvalSpec).                                 *)
(***************************************************************************)
\* C9: mandelbrot returns black for the origin 0+0i (Bounded) and Gray{0} for the
\* point 5+5i (Escaped(0): the escape is seen at iteration index 0).
C9_OriginAndFarPoint ==
  evalOut.kind # "none" =>
    /\ evalIn = ComplexNumber(0, 0) => evalOut = Black
    /\ evalIn = ComplexNumber(5, 5) => evalOut = Gray(0)

\* mandelbrot has been applied to 5+5i.
C9_Witness == evalIn = ComplexNumber(5, 5) /\ evalOut = Gray(0)

(***************************************************************************)
(* Properties of the whole program (MainSpec).                             *)
(***************************************************************************)
\* The preset's pipeline stopped at os.Open or image.Decode.
InputFailed(st) == Printed(st, "openErr") \/ Printed(st, "decodeErr")
\* A saveImage of the preset failed.
SaveFailed(st) == Printed(st, "createErr") \/ Printed(st, "encodeErr")
\* The preset ran both renders and both saves and returned.
RanToCompletion(st) ==
  /\ st.pc = "done"
  /\ SeqReturned(st) /\ Printed(st, "saveSeq")
  /\ ParReturned(st) /\ Printed(st, "savePar")
  /\ \A i \in 0 .. width - 1 : UnitFinished(st, i)
\* The preset has no output file and has printed no timing report.
NoOutput(st) ==
  /\ st.seqFile.status = "absent" /\ st.parFile.status = "absent"
  /\ ~Printed(st, "reportSeq") /\ ~Printed(st, "reportPar")

\* C6: the failure of one preset's open or decode changes nothing of another
\* preset, and when main returns every preset whose input opened and decoded has
\* run its sequential render, its parallel render and both saves to completion.
C6_FailureIsolation ==
  /\ [](mainPc = "done" =>
          \A p \in Levels : disk[p].state = "png" => RanToCompletion(proc[p]))
  /\ [][\A p \in Levels :
          (~InputFailed(proc[p]) /\ InputFailed(proc'[p]))
            => \A q \in Levels \ {p} : proc'[q] = proc[q]]_vars

\* main has returned; one preset failed at open, one at decode, and the third wrote
\* both output files.
C6_Witness ==
  /\ mainPc = "done"
  /\ \E p, q, r \in Levels :
       /\ Printed(proc[p], "openErr") /\ Printed(proc[q], "decodeErr")
       /\ RanToCompletion(proc[r])
       /\ proc[r].seqFile.status = "complete" /\ proc[r].parFile.status = "complete"

PipelineRank(pc) ==
  CASE pc = "unlaunched" -> 9 [] pc = "start" -> 8 [] pc = "opened" -> 7
    [] pc = "decoded" -> 6 [] pc = "seqTimed" -> 5 [] pc = "seqSaved" -> 4
    [] pc = "launch" -> 3 [] pc = "parTimed" -> 2 [] pc = "parSaved" -> 1
    [] OTHER -> 0
StepsLeft(st) ==
  IF st.pc = "done" THEN 0
  ELSE PipelineRank(st.pc) + Cardinality({i \in 0 .. width - 1 : st.unit[i].pc # "done"})
RunStepsLeft ==
  StepsLeft(proc["easy"]) + StepsLeft(proc["normal"]) + StepsLeft(proc["hard"])
    + (IF mainPc = "done" THEN 0 ELSE 1)

\* C8: every run terminates.  No reachable state short of main's return is a
\* deadlock and no WaitGroup counter goes negative; a processImage has called
\* wg.Done exactly once when it has returned and never before; when main's wg.Wait
\* has returned every processImage has returned and every column unit of every
\* decoded preset has finished; and every step lowers the natural number of steps
\* left, so that no run goes on for ever and, some goroutine being able to step in
\* every state short of main's return, fair scheduling brings every run there.
C8_Terminates ==
  /\ [](mainPc = "done" \/ ENABLED MainNext)
  /\ [](~panicked /\ outerWg >= 0)
  /\ [](\A p \in Levels : proc[p].doneCalls = IF proc[p].pc = "done" THEN 1 ELSE 0)
  /\ [](mainPc = "done" =>
          \A p \in Levels :
            /\ proc[p].pc = "done"
            /\ disk[p].state = "png" =>
                 \A i \in 0 .. width - 1 : UnitFinished(proc[p], i))
  /\ [][RunStepsLeft' < RunStepsLeft]_vars

\* main has returned after one preset returned on an open error, one on a decode
\* error and one at the end of its pipeline, one save having failed.
C8_Witness ==
  /\ mainPc = "done" /\ outerWg = 0
  /\ \E p, q, r \in Levels :
       /\ Printed(proc[p], "openErr") /\ Printed(proc[q], "decodeErr")
       /\ Printed(proc[r], "reportPar") /\ SaveFailed(proc[r])
       /\ proc[p].doneCalls = 1 /\ proc[q].doneCalls = 1 /\ proc[r].doneCalls = 1

(***************************************************************************)
(* Properties of the sequential renderer called again (RerunSpec).         *)
(***************************************************************************)
\* C11: every call of generateMandelbrotSequential with one source image, whether
\* on the raster the call before rendered or on another raster of the source's
\* bounds, leaves a raster equal pixel for pixel to the one the first call left.
C11_Idempotent ==
  \A k \in 1 .. Len(rerun.runs) : rerun.runs[k].out = rerun.runs[1].out

\* The renderer has been called on a raster seeded from the alternating image and
\* then again on the raster it rendered, which differs from the seeded one.
C11_Witness ==
  /\ rerun.pc = "ready"
  /\ rerun.existingImg = ImgFull
  /\ Len(rerun.runs) = 2
  /\ rerun.runs[1].on = "other" /\ rerun.runs[2].on = "same"
  /\ rerun.img # copyImage(NewRGBA(Size, Size), ImgFull)
  /\ rerun.img.pix[<<0, 1>>] = RGBA(64, 32, 1, 255)

(***************************************************************************)
(* Properties of the evaluator's loop (EvalLoopSpec).                      *)
(***************************************************************************)
\* C12: the loop of mandelbrot runs at most maxIter = 200 iterations, each giving z
\* the value z*z + c; when the call returns Gray{g}, it does so at an index i with
\* 0 <= i < maxIter, g = i mod 256 = i, the value z was given at index i has
\* |z|^2 > 4 and none given before has; when it returns after maxIter iterations
\* with no such value it returns black; and it returns what mandelbrot(c) is.
C12_BoundedEscapeLoop ==
  LET r == evalRun
      n == Len(r.orbit)
      before(k) == IF k = 1 THEN ComplexNumber(0, 0) ELSE r.orbit[k - 1]
  IN r.pc # "none" =>
       /\ n <= maxIter /\ r.i <= maxIter
       /\ \A k \in 1 .. n : r.orbit[k] = MandelStep(before(k), r.c)
       /\ r.pc = "loop" => (n = r.i /\ \A k \in 1 .. n : ~Escaped(r.orbit[k]))
       /\ r.pc = "returned" =>
            /\ r.ret = mandelbrot(r.c)
            /\ \/ /\ r.ret = Black
                  /\ n = maxIter
                  /\ \A k \in 1 .. n : ~Escaped(r.orbit[k])
               \/ \E i \in 0 .. maxIter - 1 :
                    /\ r.ret = Gray(i % 256) /\ i % 256 = i
                    /\ n = i + 1
                    /\ Escaped(r.orbit[i + 1])
                    /\ \A k \in 1 .. i : ~Escaped(r.orbit[k])

\* mandelbrot(-1+1i) has returned Gray{2} at its third iteration, z having been
\* -1+1i, -1-1i and -1+3i.
C12_Witness ==
  /\ evalRun.pc = "returned"
  /\ evalRun.c = ComplexNumber(-1, 1)
  /\ evalRun.ret = Gray(2)
  /\ evalRun.orbit = <<ComplexNumber(-1, 1), ComplexNumber(-1, -1), ComplexNumber(-1, 3)>>

(***************************************************************************)
(* Properties of the renderers' loops (RenderSpec).                        *)
(***************************************************************************)
\* C13: generateMandelbrotSequential visits the pixels of the raster's bounds in
\* the order of x ascending and, within a column, y ascending: its k-th visit is
\* to the k-th pixel of that order, so none is skipped and none visited twice; while
\* it runs its loop variables stand at the next pixel of the order; and when it has
\* returned it has visited every pixel of the bounds.
C13_SequentialOrder ==
  \A p \in Levels :
    LET st == proc[p]
        w == st.sequentialImg.w
        h == st.sequentialImg.h
        n == Len(st.seqTrace)
    IN /\ n <= w * h
       /\ \A k \in 1 .. n :
            st.seqTrace[k][1] = (k - 1) \div h /\ st.seqTrace[k][2] = (k - 1) % h
       /\ st.pc = "seq" => (n = st.sx * h + st.sy /\ st.sx <= w /\ st.sy < h)
       /\ SeqReturned(st) =>
            (n = w * h /\ {<<st.seqTrace[k][1], st.seqTrace[k][2]>> : k \in 1 .. n} = Pixels(w, h))

\* The sequential renderer has returned on the 2 x 3 image, having visited its six
\* pixels column by column.
C13_Witness ==
  \E p \in Levels :
    /\ SeqReturned(proc[p])
    /\ proc[p].existingImg = ImgSmall
    /\ [k \in 1 .. 6 |-> <<proc[p].seqTrace[k][1], proc[p].seqTrace[k][2]>>]
         = <<(<<0, 0>>), (<<0, 1>>), (<<0, 2>>), (<<1, 0>>), (<<1, 1>>), (<<1, 2>>)>>
    /\ Len(proc[p].seqTrace) = 6

\* C14: generateMandelbrotParallel launches one unit for each x of 0 .. W-1 in
\* turn and no other; a launched unit is at pixel (x, 0) of its own column, each of
\* its steps processes the pixel (x, y) it is at, which it has not processed before,
\* and moves it to (x, y+1), and it ends only at y = H; so when the renderer has
\* returned W units have been launched, each has processed the H pixels of its
\* column once, and the pixels written are those of [0,W) x [0,H) the raster has,
\* each by the unit of its column.
C14_UnitsCoverColumns ==
  /\ [](\A p \in Levels :
          LET st == proc[p]
          IN /\ st.lx <= width
             /\ \A i \in 0 .. width - 1 :
                  /\ st.unit[i].pc # "none" <=> i < st.lx
                  /\ st.unit[i].pc # "none" =>
                       (st.unit[i].x = i /\ st.unit[i].y >= 0 /\ st.unit[i].y <= height)
                  /\ st.unit[i].pc = "done" => st.unit[i].y = height
             /\ ParReturned(st) =>
                  /\ st.lx = width
                  /\ \A i \in 0 .. width - 1 : UnitFinished(st, i)
                  /\ st.parTrace = {<<pt[1], pt[1], pt[2], ParPoint(pt[1], pt[2])>> :
                                      pt \in RasterPixels(st.parallelImg)})
  /\ [][\A p \in Levels : \A i \in 0 .. width - 1 :
          LET st == proc[p]
              u == st.unit[i]
              visit == <<i, i, u.y, ParPoint(i, u.y)>>
          IN proc'[p].unit[i] # u =>
               \/ /\ u = NoUnit /\ i = st.lx
                  /\ proc'[p].unit[i] = [pc |-> "run", x |-> i, y |-> 0]
               \/ /\ u.pc = "run" /\ u.y < height
                  /\ proc'[p].unit[i] = [u EXCEPT !.y = u.y + 1]
                  /\ visit \notin st.parTrace
                  /\ proc'[p].parTrace =
                       IF InBounds(st.parallelImg, i, u.y)
                       THEN st.parTrace \cup {visit} ELSE st.parTrace
               \/ /\ u.pc = "run" /\ u.y = height
                  /\ proc'[p].unit[i] = [u EXCEPT !.pc = "done"]]_vars

\* The parallel renderer has returned on the 2 x 3 image: every one of the W units
\* has gone through its H pixels, six of which the raster has.
C14_Witness ==
  \E p \in Levels :
    /\ proc[p].pc = "parTimed"
    /\ proc[p].existingImg = ImgSmall
    /\ proc[p].lx = width
    /\ \A i \in 0 .. width - 1 : proc[p].unit[i] = [pc |-> "done", x |-> i, y |-> height]
    /\ Cardinality(proc[p].parTrace) = 6

(***************************************************************************)
(* Frame properties of one processImage call (RenderSpec).                 *)
(***************************************************************************)
\* C15: the two rasters of a preset are two values, each the source seeded by
\* copyImage into an image.NewRGBA of its bounds when the renders begin; from its
\* seeding to the call of the parallel renderer, so while the sequential renderer
\* runs, the parallel raster does not change; no step of a column unit changes the
\* sequential raster; and once the sequential raster has been handed to saveImage
\* neither it nor the file written from it changes.
C15_SeparateRasters ==
  /\ [](\A p \in Levels :
          LET st == proc[p]
              seeded == copyImage(NewRGBA(st.existingImg.w, st.existingImg.h), st.existingImg)
          IN /\ st.pc = "parSeeded" => (st.sequentialImg = seeded /\ st.parallelImg = seeded)
             /\ (st.seqFile.status = "complete" /\ SeqReturned(st)) =>
                  st.seqFile.img = st.sequentialImg)
  /\ [][\A p \in Levels :
          LET st == proc[p]
          IN /\ (Printed(st, "copyPar") /\ ~Printed(st, "callPar")) =>
                  proc'[p].parallelImg = st.parallelImg
             /\ (\E i \in 0 .. width - 1 : proc'[p].unit[i] # st.unit[i]) =>
                  proc'[p].sequentialImg = st.sequentialImg
             /\ Printed(st, "saveSeq") =>
                  (proc'[p].sequentialImg = st.sequentialImg /\ proc'[p].seqFile = st.seqFile)]_vars

\* The sequential raster has been saved and two units are at work on the parallel
\* raster, which holds one pixel it was seeded with and one a unit wrote, where the
\* sequential raster holds the rendered pixel in both places.
C15_Witness ==
  \E p \in Levels :
    /\ proc[p].pc = "launch"
    /\ proc[p].existingImg = ImgFull
    /\ proc[p].seqFile = [status |-> "complete", img |-> proc[p].sequentialImg]
    /\ proc[p].unit[0].y = 2 /\ proc[p].unit[1].y = 0 /\ proc[p].unit[1].pc = "run"
    /\ proc[p].parallelImg.pix[<<0, 1>>] = RGBA(64, 32, 1, 255)
    /\ proc[p].parallelImg.pix[<<1, 0>>] = RGBA(64, 32, 1, 128)
    /\ proc[p].sequentialImg.pix[<<1, 0>>] = RGBA(64, 32, 1, 255)

\* C16: from image.Decode's return to the end of the preset's pipeline the source
\* image is, pixel for pixel, the image that was decoded from the preset's file:
\* copyImage, the sequential loop and the column units leave it as it is.
C16_SourceReadOnly ==
  /\ [](\A p \in Levels :
          /\ proc[p].existingImg \in {NilImage, disk[p].img}
          /\ (disk[p].state = "png" /\ proc[p].pc \notin {"unlaunched", "start", "opened"}) =>
               proc[p].existingImg = disk[p].img)
  /\ [][\A p \in Levels :
          proc[p].existingImg # NilImage => proc'[p].existingImg = proc[p].existingImg]_vars

\* Both renderers have run over the alternating image, whose translucent pixel at
\* (0, 1) both rasters now hold opaque, and the source is still what was decoded.
C16_Witness ==
  \E p \in Levels :
    /\ proc[p].pc = "parReported"
    /\ disk[p] = Png(ImgFull)
    /\ proc[p].existingImg = ImgFull
    /\ proc[p].existingImg.pix[<<0, 1>>] = TransB
    /\ proc[p].sequentialImg.pix[<<0, 1>>] = RGBA(64, 32, 1, 255)
    /\ proc[p].parallelImg.pix[<<0, 1>>] = RGBA(64, 32, 1, 255)

(***************************************************************************)
(* The timing harness (RenderSpec).                                        *)
(***************************************************************************)
\* Lines 74-109: what a preset whose input decodes prints and times, in order.
EventOrder ==
  <<"processing", "copySeq", "copyPar",
    "startSeq", "callSeq", "retSeq", "stopSeq", "saveSeq", "reportSeq",
    "startPar", "callPar", "retPar", "stopPar", "savePar", "reportPar">>
\* The error messages.
ErrorEvents == {"openErr", "decodeErr", "createErr", "encodeErr"}
\* The log without the error messages.
Events(st) == SelectSeq(st.log, LAMBDA e : e \notin ErrorEvents)

\* C17: the events of a preset occur in the order: the two seeding copies; start
\* instant, call, return, stop instant, save, report of the sequential renderer;
\* then the same six of the parallel renderer.  So between a start and its stop
\* instant lie only the renderer's call and return, and the parallel start comes
\* after the sequential save and report.  The work is where the events say: the
\* sequential loop writes only between its call and return, the units are launched
\* and write only between theirs, a file is written only after the stop instant of
\* its renderer, and a save's error message follows the save at once.
C17_TimingOrder ==
  \A p \in Levels :
    LET st == proc[p]
        ev == Events(st)
    IN /\ Len(ev) <= Len(EventOrder)
       /\ \A k \in 1 .. Len(ev) : ev[k] = EventOrder[k]
       /\ \A k \in 1 .. Len(st.log) :
            st.log[k] \in {"createErr", "encodeErr"} =>
              (k > 1 /\ st.log[k - 1] \in {"saveSeq", "savePar"})
       /\ st.seqTrace # <<>> => Printed(st, "callSeq")
       /\ Printed(st, "retSeq") =>
            Len(st.seqTrace) = st.sequentialImg.w * st.sequentialImg.h
       /\ (st.lx > 0 \/ st.wg > 0 \/ st.parTrace # {}) => Printed(st, "callPar")
       /\ Printed(st, "retPar") => \A i \in 0 .. width - 1 : UnitFinished(st, i)
       /\ st.seqFile.status # "absent" => Printed(st, "stopSeq")
       /\ st.parFile.status # "absent" => Printed(st, "stopPar")

\* A preset has printed its parallel timing, its sequential save having failed in
\* png.Encode.
C17_Witness ==
  \E p \in Levels :
    /\ proc[p].pc = "parReported"
    /\ proc[p].log = <<"processing", "copySeq", "copyPar",
                        "startSeq", "callSeq", "retSeq", "stopSeq", "saveSeq", "encodeErr",
                        "reportSeq", "startPar", "callPar", "retPar", "stopPar", "savePar",
                        "reportPar">>
    /\ proc[p].seqFile.status = "partial" /\ proc[p].parFile.status = "complete"

(***************************************************************************)
(* Presets side by side (MainSpec).                                        *)
(***************************************************************************)
\* What a raster of preset p can hold at a pixel: the pixel of p's own source as
\* copyImage seeds it or as a renderer leaves it.
OwnPixels(p, pt) ==
  {ConvertRGBA(disk[p].img.pix[pt]), Shifted(disk[p].img.pix[pt])}

\* C18: under every interleaving of the three presets, a step changes the state of
\* one processImage only, its source image, rasters and files among it; the source
\* image a preset holds is the one decoded from its own file; and every pixel of
\* its two rasters and of its output files comes from its own source, the three
\* sources having no pixel in common.
C18_PresetsIsolated ==
  /\ [](\A p \in Levels :
          LET st == proc[p]
          IN /\ st.existingImg \in {NilImage, disk[p].img}
             /\ \A img \in {st.sequentialImg, st.parallelImg, st.seqFile.img, st.parFile.img} :
                  img # NilImage =>
                    /\ img.w = disk[p].img.w /\ img.h = disk[p].img.h
                    /\ \A pt \in Pixels(img.w, img.h) : img.pix[pt] \in OwnPixels(p, pt)
             /\ \A q \in Levels \ {p} :
                  (disk[p].state = "png" /\ disk[q].state = "png") =>
                    \A pt \in Pixels(1, 1) : OwnPixels(p, pt) \cap OwnPixels(q, pt) = {})
  /\ [][\A p \in Levels :
          proc'[p] # proc[p] => \A q \in Levels \ {p} : proc'[q] = proc[q]]_vars

\* main has returned, the three presets having rendered and saved side by side,
\* each its own pixel.
C18_Witness ==
  /\ mainPc = "done"
  /\ \A p \in Levels :
       /\ RanToCompletion(proc[p])
       /\ proc[p].seqFile.status = "complete" /\ proc[p].parFile.status = "complete"
       /\ proc[p].parFile.img.pix[<<0, 0>>] = Shifted(PresetImage(p).pix[<<0, 0>>])
  /\ proc["easy"].parallelImg.pix[<<0, 0>>] = RGBA(64, 32, 1, 255)
  /\ proc["normal"].parallelImg.pix[<<0, 0>>] = RGBA(255, 128, 18, 255)
  /\ proc["hard"].parallelImg.pix[<<0, 0>>] = RGBA(16, 32, 48, 255)

(***************************************************************************)
(* The WaitGroup of generateMandelbrotParallel (RenderSpec).               *)
(***************************************************************************)
\* C19: the counter of the renderer's WaitGroup is never negative and no Done
\* panics; from wg.Add(height) to wg.Wait's return it is height less the number of
\* units that have called Done; and it is zero there exactly when all width units
\* have been launched and every one has finished, so that wg.Wait returns neither
\* while a unit still runs or is still to be launched, nor never.
C19_CounterMatchesUnits ==
  /\ ~panicked
  /\ \A p \in Levels :
       LET st == proc[p]
           finished == {i \in 0 .. width - 1 : st.unit[i].pc = "done"}
       IN /\ st.wg >= 0
          /\ st.pc = "launch" =>
               /\ st.wg = height - Cardinality(finished)
               /\ st.wg = 0 <=> (st.lx = width /\ \A i \in 0 .. width - 1 : UnitFinished(st, i))
               /\ WaitReady(st) <=> finished = 0 .. width - 1
          /\ st.pc # "launch" => st.wg = 0

\* All units are launched and all but the last have called Done: the counter is 1
\* and wg.Wait does not return.
C19_Witness ==
  \E p \in Levels :
    /\ proc[p].pc = "launch" /\ proc[p].lx = width
    /\ proc[p].wg = 1
    /\ ~WaitReady(proc[p])
    /\ proc[p].unit[width - 1] = [pc |-> "run", x |-> width - 1, y |-> height]
    /\ \A i \in 0 .. width - 2 : UnitFinished(proc[p], i)

====
